---- MODULE Spec2Model ----
(***************************************************************************)
(* The object-storage command group of vultr-cli                           *)
(* (cmd/objectstorage/objectstorage.go).                                   *)
(*                                                                         *)
(* One behaviour is one execution of one subcommand: the command line      *)
(* (subcommand, positional arguments, flags) and the credentials state are *)
(* fixed by Init, and the steps are the phases in which the command        *)
(* framework runs a cobra.Command: flag parsing, the Args validator, the   *)
(* parent's PersistentPreRunE, the required-flag check, the RunE handler.  *)
(* A RunE handler is one atomic step: it blocks on the API client, whose   *)
(* answer is chosen nondeterministically, and the order of what it does    *)
(* (call, return, display) is kept in the sequence `events`.               *)
(***************************************************************************)
EXTENDS Integers, Sequences, FiniteSets, TLC

(* ------------------------------ bounds -------------------------------- *)

\* longest positional argument text, in characters
MaxArgLen == 2
\* most positional arguments given after the first one
MaxExtraArgs == 1

(* ----------------------------- constants ------------------------------ *)

NoError == "<nil>"

APIKeyError == "utils.APIKeyError"

PerPageDefault == 100

Commands ==
    {"list", "get", "create", "label", "delete", "regenerate-keys",
     "list-clusters", "list-cluster-tiers", "list-tiers"}

FlagNames == {"cursor", "per-page", "label", "cluster-id", "tier-id"}

\* errors the API client can answer with
APIErrors == {"not found", "server error"}

(* ------------------------- command-line inputs ------------------------ *)

\* characters a positional argument is made of
Alphabet == {"7", "-", "x"}

ArgStrings == UNION {[1..n -> Alphabet] : n \in 0..MaxArgLen}

\* a positional argument after the first; no handler reads it
ExtraArg == <<"x">>

Argvs ==
    {<<>>} \cup
    {<<a>> \o [i \in 1..k |-> ExtraArg] : a \in ArgStrings, k \in 0..MaxExtraArgs}

\* the value a flag is given on the command line, in each of two sample
\* command lines; the second gives every flag a zero or default-looking value
FlagInput(f, v) ==
    CASE f = "cursor" -> IF v = 1 THEN "c1" ELSE "c2"
      [] f = "per-page" -> IF v = 1 THEN 50 ELSE 25
      [] f = "label" -> IF v = 1 THEN "mybucket" ELSE ""
      [] f = "cluster-id" -> IF v = 1 THEN 5 ELSE 0
      [] f = "tier-id" -> IF v = 1 THEN 3 ELSE 1

CommandLines ==
    {[f \in S |-> FlagInput(f, v)] : S \in SUBSET FlagNames, v \in 1..2}

RECURSIVE Text(_)
\* the text of an argument given as its sequence of characters
Text(s) == IF s = <<>> THEN "" ELSE Head(s) \o Text(Tail(s))

(* ------------------------------ strconv ------------------------------- *)

Digits == {"0", "1", "2", "3", "4", "5", "6", "7", "8", "9"}

DigitVal(c) ==
    CASE c = "0" -> 0 [] c = "1" -> 1 [] c = "2" -> 2 [] c = "3" -> 3
      [] c = "4" -> 4 [] c = "5" -> 5 [] c = "6" -> 6 [] c = "7" -> 7
      [] c = "8" -> 8 [] c = "9" -> 9

SyntaxError(s) == "strconv.Atoi: parsing \"" \o Text(s) \o "\": invalid syntax"

RECURSIVE AtoiDigits(_, _)
\* the digit loop: n = n*10 + digit, a non-digit is a syntax error (-1 here)
AtoiDigits(s, n) ==
    IF s = <<>> THEN n
    ELSE IF Head(s) \notin Digits THEN -1
    ELSE AtoiDigits(Tail(s), n * 10 + DigitVal(Head(s)))

Atoi_NoEmptyCheck(s) ==
    LET signed == s # <<>> /\ Head(s) \in {"-", "+"}
        body == IF signed THEN Tail(s) ELSE s
        n == AtoiDigits(body, 0)
    IN  IF n = -1
        THEN [n |-> 0, err |-> SyntaxError(s)]
        ELSE [n |-> IF signed /\ Head(s) = "-" THEN -n ELSE n, err |-> NoError]

\* strconv.Atoi on texts short enough not to overflow an int: an optional
\* sign, then at least one decimal digit
Atoi(s) ==
    LET signed == s # <<>> /\ Head(s) \in {"-", "+"}
        body == IF signed THEN Tail(s) ELSE s
        n == AtoiDigits(body, 0)
    IN  IF body = <<>> \/ n = -1
        THEN [n |-> 0, err |-> SyntaxError(s)]
        ELSE [n |-> IF signed /\ Head(s) = "-" THEN -n ELSE n, err |-> NoError]

(* ------------------------ command definitions ------------------------- *)

\* the flags each subcommand registers
Registered(c) ==
    CASE c = "list" -> {"cursor", "per-page"}
      [] c = "create" -> {"label", "cluster-id", "tier-id"}
      [] c = "label" -> {"label"}
      [] OTHER -> {}

FlagDefault_TierZero(f) ==
    CASE f = "cursor" -> ""
      [] f = "per-page" -> PerPageDefault
      [] f = "label" -> ""
      [] f = "cluster-id" -> 0
      [] f = "tier-id" -> 0

\* the default each flag is registered with
FlagDefault(f) ==
    CASE f = "cursor" -> ""
      [] f = "per-page" -> PerPageDefault
      [] f = "label" -> ""
      [] f = "cluster-id" -> 0
      [] f = "tier-id" -> 1

RequiredFlags_CreateNone(c) ==
    CASE c = "label" -> {"label"}
      [] OTHER -> {}

RequiredFlags_LabelNone(c) ==
    CASE c = "create" -> {"cluster-id"}
      [] OTHER -> {}

\* the flags marked required with MarkFlagRequired
RequiredFlags(c) ==
    CASE c = "create" -> {"cluster-id"}
      [] c = "label" -> {"label"}
      [] OTHER -> {}

Args_AtLeastTwo(c, a) ==
    IF c \in {"get", "label", "delete", "regenerate-keys"} /\ Len(a) < 2
    THEN "please provide an object storage ID"
    ELSE IF c = "list-cluster-tiers" /\ Len(a) < 1
    THEN "please provide a Cluster ID"
    ELSE NoError

\* the Args validators: len(args) < 1 is the only rejected case
Args(c, a) ==
    IF c \in {"get", "label", "delete", "regenerate-keys"} /\ Len(a) < 1
    THEN "please provide an object storage ID"
    ELSE IF c = "list-cluster-tiers" /\ Len(a) < 1
    THEN "please provide a Cluster ID"
    ELSE NoError

\* the static prefix each RunE wraps an API error with
ErrPrefix(c) ==
    CASE c = "list" -> "error retrieving object storage list : "
      [] c = "get" -> "error getting object storage info : "
      [] c = "create" -> "error creating object storage : "
      [] c = "label" -> "error updating object storage label : "
      [] c = "delete" -> "unable to delete object storage : "
      [] c = "regenerate-keys" -> "unable to regenerate keys for object storage : "
      [] c = "list-clusters" -> "error retrieving object storage cluster list : "
      [] c = "list-cluster-tiers" -> "error retrieving object storage cluster tier list: "
      [] c = "list-tiers" -> "error retrieving object storage tier list : "

(* ------------------------------- state -------------------------------- *)

VARIABLES
    cmd,        \* the subcommand invoked
    argv,       \* its positional arguments
    cmdline,    \* the flags given on the command line: name -> value
    HasAuth,    \* o.Base.HasAuth
    flags,      \* cmd.Flags(): name -> [value, changed]
    o,          \* the options struct, with Base.Args and Base.Options
    pc,         \* the phase the execution is in
    ran,        \* the hooks of the command that have run, in order
    events,     \* API calls, their returns, and printer displays, in order
    err         \* the error the execution returns

vars == <<cmd, argv, cmdline, HasAuth, flags, o, pc, ran, events, err>>

inputs == <<cmd, argv, cmdline, HasAuth>>

\* utils.GetPaging: the list options read from the command's flags; a flag
\* the command does not register reads as its zero value
GetPaging(fl) ==
    [Cursor |-> IF "cursor" \in DOMAIN fl THEN fl["cursor"].value ELSE "",
     PerPage |-> IF "per-page" \in DOMAIN fl THEN fl["per-page"].value ELSE 0]

Init ==
    /\ cmd \in Commands
    /\ argv \in Argvs
    /\ cmdline \in CommandLines
    /\ HasAuth \in BOOLEAN
    /\ flags = [f \in Registered(cmd) |-> [value |-> FlagDefault(f), changed |-> FALSE]]
    /\ o = [ClusterID |-> 0, TierID |-> 0, Label |-> "",
            Args |-> <<>>, Options |-> [Cursor |-> "", PerPage |-> 0]]
    /\ pc = "parse"
    /\ ran = <<>>
    /\ events = <<>>
    /\ err = NoError

(* --------------------------- options methods -------------------------- *)
\* Each builds the one client call its handler issues.

list(opt) == [kind |-> "call", op |-> "List", options |-> opt.Options]

get(opt) == [kind |-> "call", op |-> "Get", id |-> opt.Args[1]]

create(opt) ==
    [kind |-> "call", op |-> "Create",
     req |-> [ClusterID |-> opt.ClusterID, TierID |-> opt.TierID, Label |-> opt.Label]]

update_TierOne(opt) ==
    [kind |-> "call", op |-> "Update", id |-> opt.Args[1],
     req |-> [ClusterID |-> 0, TierID |-> 1, Label |-> opt.Label]]

\* the request literal sets Label only: ClusterID and TierID stay zero
update(opt) ==
    [kind |-> "call", op |-> "Update", id |-> opt.Args[1],
     req |-> [ClusterID |-> 0, TierID |-> 0, Label |-> opt.Label]]

del(opt) == [kind |-> "call", op |-> "Delete", id |-> opt.Args[1]]

listClusters(opt) == [kind |-> "call", op |-> "ListCluster", options |-> opt.Options]

\* ListTiers takes the context only
listTiers(opt) == [kind |-> "call", op |-> "ListTiers"]

listClusterTiers(opt, clusterID) ==
    [kind |-> "call", op |-> "ListClusterTiers", clusterID |-> clusterID]

regenerateKeys(opt) == [kind |-> "call", op |-> "RegenerateKeys", id |-> opt.Args[1]]

\* the client's answer to a call
Return(r) == [kind |-> "return", err |-> r]

\* o.Base.Printer.Display(data, nil)
Display(data) == [kind |-> "display", data |-> data]

(* ---------------------- phases before the handler --------------------- *)

\* Flag parsing: a flag the subcommand does not register ends the execution;
\* otherwise every given flag takes its value and is marked changed.
ParseFlags ==
    /\ pc = "parse"
    /\ IF DOMAIN cmdline \subseteq Registered(cmd)
       THEN /\ flags' = [f \in DOMAIN flags |->
                            IF f \in DOMAIN cmdline
                            THEN [value |-> cmdline[f], changed |-> TRUE]
                            ELSE flags[f]]
            /\ pc' = "args"
            /\ err' = err
       ELSE /\ \E f \in DOMAIN cmdline \ Registered(cmd) :
                  err' = "unknown flag: --" \o f
            /\ pc' = "done"
            /\ flags' = flags
    /\ UNCHANGED <<inputs, o, ran, events>>

\* The subcommand's Args validator.
ValidateArgs ==
    /\ pc = "args"
    /\ ran' = Append(ran, "Args")
    /\ err' = Args(cmd, argv)
    /\ pc' = IF Args(cmd, argv) = NoError THEN "prerun" ELSE "done"
    /\ UNCHANGED <<inputs, flags, o, events>>

PersistentPreRunE_NoGate ==
    /\ pc = "prerun"
    /\ ran' = Append(ran, "PersistentPreRunE")
    /\ o' = [o EXCEPT !.Args = argv]
    /\ err' = err
    /\ pc' = "required"
    /\ UNCHANGED <<inputs, flags, events>>

\* The group's PersistentPreRunE: utils.SetOptions stores the positional
\* arguments in the base, then the credentials gate.
PersistentPreRunE ==
    /\ pc = "prerun"
    /\ ran' = Append(ran, "PersistentPreRunE")
    /\ o' = [o EXCEPT !.Args = argv]
    /\ IF ~HasAuth
       THEN err' = APIKeyError /\ pc' = "done"
       ELSE err' = err /\ pc' = "required"
    /\ UNCHANGED <<inputs, flags, events>>

\* The required-flag check: a required flag that was not given ends the
\* execution.
ValidateRequiredFlags ==
    /\ pc = "required"
    /\ LET missing == {f \in RequiredFlags(cmd) : ~flags[f].changed}
       IN  IF missing = {}
           THEN err' = err /\ pc' = "run"
           ELSE /\ \E f \in missing :
                      err' = "required flag(s) \"" \o f \o "\" not set"
                /\ pc' = "done"
    /\ UNCHANGED <<inputs, flags, o, ran, events>>

(* ------------------------------ handlers ------------------------------ *)

Answers == APIErrors \cup {NoError}

Respond_DisplayFirst(call, data) ==
    \E r \in Answers :
        /\ events' = events \o <<Display(data), call, Return(r)>>
        /\ err' = IF r # NoError THEN ErrPrefix(cmd) \o r ELSE NoError

Respond_Swallow(call, data) ==
    \E r \in Answers :
        /\ events' = events \o <<call, Return(r), Display(data)>>
        /\ err' = NoError

\* What every RunE does with its one call: issue it and wait for the answer;
\* on an error return the wrapped error, otherwise display the data.
Respond(call, data) ==
    \E r \in Answers :
        /\ events' = events \o <<call, Return(r)>> \o
                        (IF r # NoError THEN <<>> ELSE <<Display(data)>>)
        /\ err' = IF r # NoError THEN ErrPrefix(cmd) \o r ELSE NoError

RunEList ==
    /\ pc = "run" /\ cmd = "list"
    /\ ran' = Append(ran, "RunE")
    /\ o' = [o EXCEPT !.Options = GetPaging(flags)]
    /\ Respond(list(o'), "ObjectStoragesPrinter")
    /\ pc' = "done"
    /\ UNCHANGED <<inputs, flags>>

RunEGet ==
    /\ pc = "run" /\ cmd = "get"
    /\ ran' = Append(ran, "RunE")
    /\ Respond(get(o), "ObjectStoragePrinter")
    /\ pc' = "done"
    /\ UNCHANGED <<inputs, flags, o>>

RunECreate ==
    /\ pc = "run" /\ cmd = "create"
    /\ ran' = Append(ran, "RunE")
    /\ o' = [o EXCEPT !.ClusterID = flags["cluster-id"].value,
                      !.Label = flags["label"].value,
                      !.TierID = flags["tier-id"].value]
    /\ Respond(create(o'), "ObjectStoragePrinter")
    /\ pc' = "done"
    /\ UNCHANGED <<inputs, flags>>

RunELabel ==
    /\ pc = "run" /\ cmd = "label"
    /\ ran' = Append(ran, "RunE")
    /\ o' = [o EXCEPT !.Label = flags["label"].value]
    /\ Respond(update(o'), "object storage label has been set")
    /\ pc' = "done"
    /\ UNCHANGED <<inputs, flags>>

RunEDelete ==
    /\ pc = "run" /\ cmd = "delete"
    /\ ran' = Append(ran, "RunE")
    /\ Respond(del(o), "object storage has been deleted")
    /\ pc' = "done"
    /\ UNCHANGED <<inputs, flags, o>>

RunERegenerateKeys ==
    /\ pc = "run" /\ cmd = "regenerate-keys"
    /\ ran' = Append(ran, "RunE")
    /\ Respond(regenerateKeys(o), "ObjectStorageKeysPrinter")
    /\ pc' = "done"
    /\ UNCHANGED <<inputs, flags, o>>

RunEListClusters ==
    /\ pc = "run" /\ cmd = "list-clusters"
    /\ ran' = Append(ran, "RunE")
    /\ o' = [o EXCEPT !.Options = GetPaging(flags)]
    /\ Respond(listClusters(o'), "ObjectStorageClustersPrinter")
    /\ pc' = "done"
    /\ UNCHANGED <<inputs, flags>>

RunEListClusterTiers ==
    /\ pc = "run" /\ cmd = "list-cluster-tiers"
    /\ ran' = Append(ran, "RunE")
    /\ LET parsed == Atoi(argv[1])
       IN  IF parsed.err # NoError
           THEN /\ err' = "invalid clusterID: " \o parsed.err
                /\ UNCHANGED <<o, events>>
           ELSE /\ o' = [o EXCEPT !.Options = GetPaging(flags)]
                /\ Respond(listClusterTiers(o', parsed.n), "ObjectStorageClusterTiersPrinter")
    /\ pc' = "done"
    /\ UNCHANGED <<inputs, flags>>

RunEListTiers ==
    /\ pc = "run" /\ cmd = "list-tiers"
    /\ ran' = Append(ran, "RunE")
    /\ o' = [o EXCEPT !.Options = GetPaging(flags)]
    /\ Respond(listTiers(o'), "ObjectStorageTiersPrinter")
    /\ pc' = "done"
    /\ UNCHANGED <<inputs, flags>>

Next ==
    \/ ParseFlags
    \/ ValidateArgs
    \/ PersistentPreRunE
    \/ ValidateRequiredFlags
    \/ RunEList
    \/ RunEGet
    \/ RunECreate
    \/ RunELabel
    \/ RunEDelete
    \/ RunERegenerateKeys
    \/ RunEListClusters
    \/ RunEListClusterTiers
    \/ RunEListTiers

Spec == Init /\ [][Next]_vars

(* ------------------------- derived quantities ------------------------ *)

Done == pc = "done"

Calls == SelectSeq(events, LAMBDA e : e.kind = "call")

Displays == SelectSeq(events, LAMBDA e : e.kind = "display")

FlagsParse == DOMAIN cmdline \subseteq Registered(cmd)

\* the subcommands whose Use line names a positional argument
Positional == {"get", "label", "delete", "regenerate-keys", "list-cluster-tiers"}

MissingArg == cmd \in Positional /\ argv = <<>>

MissingFlag ==
    \/ cmd = "create" /\ "cluster-id" \notin DOMAIN cmdline
    \/ cmd = "label" /\ "label" \notin DOMAIN cmdline

MissingArgMsg ==
    IF cmd = "list-cluster-tiers"
    THEN "please provide a Cluster ID"
    ELSE "please provide an object storage ID"

MissingFlagMsg ==
    IF cmd = "create"
    THEN "required flag(s) \"cluster-id\" not set"
    ELSE "required flag(s) \"label\" not set"

HookRan == \E i \in DOMAIN ran : ran[i] = "PersistentPreRunE"

BodyRan == \E i \in DOMAIN ran : ran[i] = "RunE"

\* decimal notation, stated without the parser: an optional sign, then one
\* or more digits, read by positional weight
Unsigned(s) == IF s # <<>> /\ s[1] \in {"-", "+"} THEN SubSeq(s, 2, Len(s)) ELSE s

IsDecimal(s) ==
    /\ Unsigned(s) # <<>>
    /\ \A i \in DOMAIN Unsigned(s) : Unsigned(s)[i] \in Digits

RECURSIVE WeightedSum(_, _)
WeightedSum(b, i) ==
    IF i > Len(b) THEN 0
    ELSE DigitVal(b[i]) * 10 ^ (Len(b) - i) + WeightedSum(b, i + 1)

DecimalValue(s) ==
    IF s[1] = "-" THEN 0 - WeightedSum(Unsigned(s), 1) ELSE WeightedSum(Unsigned(s), 1)

(* ------------------------------- claims ------------------------------- *)

\* C1 as stated: an execution whose flags parse and that omits a required
\* positional argument or a required flag makes no API call and ends with
\* the subcommand's validation error (the missing-argument message, or the
\* required-flag message).
C1_AsStated ==
    (FlagsParse /\ (MissingArg \/ MissingFlag)) =>
        /\ Calls = <<>>
        /\ Done => err = IF MissingArg THEN MissingArgMsg ELSE MissingFlagMsg

\* C1 amended: an execution that omits a required positional argument or a
\* required flag never makes an API call and never succeeds; when its flags
\* parse, a missing positional argument ends it with the missing-argument
\* message, and a missing required flag alone ends it with the required-flag
\* message if the base has credentials and with the API-key error if not
\* (the credentials gate runs before the required-flag check).
C1_ValidationBeforeCall ==
    (MissingArg \/ MissingFlag) =>
        /\ Calls = <<>>
        /\ Done => err # NoError
        /\ (Done /\ FlagsParse) =>
              err = IF MissingArg THEN MissingArgMsg
                    ELSE IF HasAuth THEN MissingFlagMsg
                    ELSE APIKeyError

C1_Witness ==
    /\ Done /\ FlagsParse /\ MissingFlag /\ ~MissingArg /\ HasAuth
    /\ err = MissingFlagMsg /\ events = <<>>

\* C2: in every state of every execution there is at most one API call and
\* at most one display, every call is immediately followed by its return,
\* and a display comes only after a return.
C2_OneCallThenDisplay ==
    /\ Len(Calls) <= 1
    /\ Len(Displays) <= 1
    /\ \A i \in DOMAIN events :
          /\ events[i].kind = "call" =>
                i < Len(events) /\ events[i + 1].kind = "return"
          /\ events[i].kind = "return" => i > 1 /\ events[i - 1].kind = "call"
          /\ events[i].kind = "display" =>
                \E j \in 1..(i - 1) : events[j].kind = "return"

C2_Witness ==
    /\ Done /\ Len(Calls) = 1 /\ Len(Displays) = 1
    /\ events[Len(events)].kind = "display"

\* C3: whenever the API call returned an error, the execution returns an
\* error, made of the subcommand's fixed prefix followed by the text of the
\* error the client returned, and nothing was displayed.
C3_RemoteErrorWrapped ==
    \A i \in DOMAIN events :
        (events[i].kind = "return" /\ events[i].err # NoError) =>
            /\ err # NoError
            /\ err = ErrPrefix(cmd) \o events[i].err
            /\ Displays = <<>>

C3_Witness ==
    /\ Done
    /\ \E i \in DOMAIN events : events[i].kind = "return" /\ events[i].err = "not found"
    /\ err = ErrPrefix(cmd) \o "not found"

\* C4: every request create sends carries the cluster ID given with
\* --cluster-id, the label given with --label, and the tier ID given with
\* --tier-id, or 1 when --tier-id is omitted; and an execution of create with
\* --cluster-id given, whose flags parse and whose base has credentials,
\* sends exactly one such request.
C4_CreateRequest ==
    cmd = "create" =>
        /\ \A i \in DOMAIN Calls :
              /\ Calls[i].op = "Create"
              /\ "cluster-id" \in DOMAIN cmdline
              /\ Calls[i].req.ClusterID = cmdline["cluster-id"]
              /\ Calls[i].req.TierID =
                    IF "tier-id" \in DOMAIN cmdline THEN cmdline["tier-id"] ELSE 1
              /\ "label" \in DOMAIN cmdline => Calls[i].req.Label = cmdline["label"]
        /\ (Done /\ FlagsParse /\ HasAuth /\ "cluster-id" \in DOMAIN cmdline) =>
              Len(Calls) = 1

C4_Witness ==
    /\ cmd = "create" /\ "tier-id" \notin DOMAIN cmdline
    /\ "label" \in DOMAIN cmdline
    /\ "cluster-id" \in DOMAIN cmdline /\ cmdline["cluster-id"] = 5
    /\ Len(Calls) = 1
    /\ Calls[1].req = [ClusterID |-> 5, TierID |-> 1, Label |-> cmdline["label"]]

\* C5: every call label issues is an update for the ID given as the first
\* positional argument, with a request whose label is the --label value and
\* whose cluster ID and tier ID are zero; and an execution of label with an
\* ID and --label, whose base has credentials, issues exactly one such call.
C5_LabelRequest ==
    cmd = "label" =>
        /\ \A i \in DOMAIN Calls :
              /\ Calls[i].op = "Update"
              /\ argv # <<>> /\ Calls[i].id = argv[1]
              /\ "label" \in DOMAIN cmdline
              /\ Calls[i].req =
                    [ClusterID |-> 0, TierID |-> 0, Label |-> cmdline["label"]]
        /\ (Done /\ FlagsParse /\ HasAuth /\ argv # <<>> /\ "label" \in DOMAIN cmdline) =>
              Len(Calls) = 1

C5_Witness ==
    /\ cmd = "label" /\ Len(Calls) = 1
    /\ Calls[1].req.Label = "mybucket"
    /\ Calls[1].req.ClusterID = 0 /\ Calls[1].req.TierID = 0

\* C6 as stated: list-cluster-tiers with a first positional argument that is
\* not decimal notation makes no call and ends with the invalid-clusterID
\* error; with one that denotes the integer n it makes the call, with
\* cluster ID n.
C6_AsStated ==
    (cmd = "list-cluster-tiers" /\ argv # <<>> /\ FlagsParse) =>
        IF IsDecimal(argv[1])
        THEN /\ \A i \in DOMAIN Calls :
                    /\ Calls[i].op = "ListClusterTiers"
                    /\ Calls[i].clusterID = DecimalValue(argv[1])
             /\ Done => Len(Calls) = 1
        ELSE /\ Calls = <<>>
             /\ Done => err = "invalid clusterID: " \o SyntaxError(argv[1])

\* C6 amended: the same for an execution whose base has credentials; without
\* credentials list-cluster-tiers ends with the API-key error and makes no
\* call, whatever the argument.
C6_ClusterIDParsed ==
    (cmd = "list-cluster-tiers" /\ argv # <<>> /\ FlagsParse) =>
        /\ ~HasAuth => Calls = <<>> /\ (Done => err = APIKeyError)
        /\ HasAuth =>
              IF IsDecimal(argv[1])
              THEN /\ \A i \in DOMAIN Calls :
                          /\ Calls[i].op = "ListClusterTiers"
                          /\ Calls[i].clusterID = DecimalValue(argv[1])
                   /\ Done => Len(Calls) = 1
              ELSE /\ Calls = <<>>
                   /\ Done => err = "invalid clusterID: " \o SyntaxError(argv[1])

C6_Witness ==
    /\ cmd = "list-cluster-tiers" /\ HasAuth /\ Done
    /\ argv # <<>> /\ argv[1] = <<"-", "x">>
    /\ err = "invalid clusterID: strconv.Atoi: parsing \"-x\": invalid syntax"
    /\ events = <<>>

\* C7 as stated: get reaches the API call only when exactly one positional
\* argument is given; with any other count it makes no call and ends with
\* an error.
C7_AsStated ==
    cmd = "get" =>
        /\ Calls # <<>> => Len(argv) = 1
        /\ Len(argv) # 1 =>
              /\ Calls = <<>>
              /\ Done => err # NoError

\* C7 amended: get requires at least one positional argument: with none it
\* makes no call and, its flags parsing, ends with the missing-argument
\* message; with one or more, its base having credentials, it makes exactly
\* one call, for the first argument, and the further arguments are ignored.
C7_GetNeedsAnID ==
    cmd = "get" =>
        /\ Calls # <<>> => argv # <<>> /\ Calls[1].op = "Get" /\ Calls[1].id = argv[1]
        /\ argv = <<>> =>
              /\ Calls = <<>>
              /\ (Done /\ FlagsParse) => err = "please provide an object storage ID"
        /\ (argv # <<>> /\ Done /\ FlagsParse /\ HasAuth) => Len(Calls) = 1

C7_Witness ==
    /\ cmd = "get" /\ Done /\ Len(argv) = 2
    /\ Len(Calls) = 1 /\ Calls[1].id = argv[1]

\* C8 as stated: create and label without --label make no API call and end
\* with an error.
C8_AsStated ==
    (cmd \in {"create", "label"} /\ "label" \notin DOMAIN cmdline) =>
        /\ Calls = <<>>
        /\ Done => err # NoError

\* C8 amended: --label is required on label only. label without --label
\* makes no API call and ends with an error (the required-flag message when
\* an ID is given and the base has credentials). create without --label is
\* accepted: with --cluster-id given and credentials it sends one request,
\* whose label is empty.
C8_LabelRequiredOnLabel ==
    "label" \notin DOMAIN cmdline =>
        /\ cmd = "label" =>
              /\ Calls = <<>>
              /\ Done => err # NoError
              /\ (Done /\ FlagsParse /\ argv # <<>> /\ HasAuth) =>
                    err = "required flag(s) \"label\" not set"
        /\ cmd = "create" =>
              /\ \A i \in DOMAIN Calls : Calls[i].req.Label = ""
              /\ (Done /\ FlagsParse /\ HasAuth /\ "cluster-id" \in DOMAIN cmdline) =>
                    Len(Calls) = 1

C8_Witness ==
    /\ cmd = "label" /\ "label" \notin DOMAIN cmdline /\ Done
    /\ argv # <<>> /\ HasAuth
    /\ err = "required flag(s) \"label\" not set" /\ events = <<>>

\* C9: list, list-clusters and list-tiers, given --cursor and/or --per-page
\* (and nothing else) by a user with credentials, make one API call whose
\* list options carry the cursor and the page size given.
C9_PagingForwarded ==
    (/\ cmd \in {"list", "list-clusters", "list-tiers"}
     /\ HasAuth /\ Done
     /\ DOMAIN cmdline # {} /\ DOMAIN cmdline \subseteq {"cursor", "per-page"}) =>
        /\ Len(Calls) = 1
        /\ "options" \in DOMAIN Calls[1]
        /\ "cursor" \in DOMAIN cmdline => Calls[1].options.Cursor = cmdline["cursor"]
        /\ "per-page" \in DOMAIN cmdline => Calls[1].options.PerPage = cmdline["per-page"]

\* C10: when the base has no credentials, no subcommand body runs, no API
\* call is made, nothing is displayed, and the pre-run hook, once it has
\* run, has ended the execution with the API-key error.
C10_AuthGate ==
    ~HasAuth =>
        /\ ~BodyRan
        /\ events = <<>>
        /\ pc \notin {"required", "run"}
        /\ HookRan => Done /\ err = APIKeyError

C10_Witness ==
    /\ ~HasAuth /\ HookRan /\ Done /\ err = APIKeyError
    /\ cmd = "create" /\ "cluster-id" \in DOMAIN cmdline

====
